---- MODULE Spec2Model ----
(***************************************************************************)
(* A model of src/App.tsx: the chat orchestration (handleSend) and the     *)
(* live-audio session controller (toggleLive and the vendor callbacks).    *)
(*                                                                         *)
(* Texts are sequences of one-character strings, so that trim(), the       *)
(* image-intent regular expression and string concatenation are computed,  *)
(* not assumed.  Every await of the source is a point where the handler's  *)
(* action ends and a later action resumes it; everything between two       *)
(* awaits runs in one step (JavaScript's run-to-completion).  React is     *)
(* taken to re-render between two event-loop tasks, so a handler reads the *)
(* state as of its call.                                                   *)
(***************************************************************************)
EXTENDS Integers, Sequences, FiniteSets, TLC

VARIABLES
    messages,       \* useState<Message[]>                      (App.tsx:19)
    input,          \* useState('')                             (App.tsx:27)
    emotion,        \* leoState.emotion                         (App.tsx:29)
    isSpeaking,     \* leoState.isSpeaking                      (App.tsx:30)
    isThinking,     \* leoState.isThinking                      (App.tsx:31)
    isLive,         \* leoState.isLive                          (App.tsx:32)
    audioInit,      \* both AudioContext refs are set           (App.tsx:36-37)
    now,            \* the value Date.now() returns
    subs,           \* one record per accepted handleSend call: its locals
    toggles,        \* one record per toggleLive call that passed line 58
    sessions,       \* one record per ai.live.connect call
    liveSessionRef, \* liveSessionRef.current                   (App.tsx:38)
    nextStartTime,  \* nextStartTimeRef.current                 (App.tsx:39)
    activeSources,  \* activeSources.current                    (App.tsx:40)
    currentTime,    \* outputAudioContextRef.current.currentTime
    frames,         \* one record per audio frame delivered to onmessage
                    \* (epoch: the interruptions handled before its start)
    msgCount,       \* history: number of messages delivered to onmessage
    interrupts,     \* history: the arrival numbers of the interruptions
    sentFrames,     \* history: microphone frames given to sendRealtimeInput
    scope           \* the bounds and input sets of the specification checked

chatVars == <<messages, input, isThinking, now, subs>>
liveVars == <<isSpeaking, isLive, toggles, sessions, liveSessionRef,
              nextStartTime, activeSources, currentTime, frames, msgCount,
              interrupts, sentFrames>>
vars == <<chatVars, liveVars, emotion, audioInit, scope>>

----------------------------------------------------------------------------
(* Bounds of the model. *)

\* SpecChat: interleaved submissions
MaxSubs == 2        \* accepted submissions
MaxChunks == 1      \* fragments delivered by all text streams together
MaxNow == 1         \* largest value of Date.now()

\* SpecStream: concurrent text streams and their fragments
StreamSubs == 2
StreamChunks == 2
StreamNow == 1

\* SpecIntent: one submission, every kind of text
IntentSubs == 1
IntentChunks == 1
IntentNow == 1

\* SpecHistory: enough submissions for the history window to cut
HistSubs == 4
HistChunks == 1
HistNow == 1

\* SpecThinking: submissions whose requests all resolve in the end
ThinkSubs == 1
ThinkChunks == 1
ThinkNow == 1

\* SpecLive: the whole live-session controller
MaxToggles == 2     \* toggleLive calls between two reloads
MaxMsgs == 2        \* messages the vendor delivers to onmessage
MaxTime == 2        \* largest value of the output clock
MaxMic == 1         \* microphone frames captured

\* SpecPlayback: the callbacks of one open session
PlayMsgs == 3
PlayTime == 2

\* SpecSession: the life cycle of the sessions
SessToggles == 2
SessMic == 1

----------------------------------------------------------------------------
(* Texts. *)

T_empty == <<>>
T_blank == <<" ", "\t">>
T_weather ==
    <<"w","h","a","t","'","s"," ","t","h","e"," ","w","e","a","t","h","e","r">>
T_generate ==
    <<"g","e","n","e","r","a","t","e"," ","a"," ","s","u","n","s","e","t">>
T_ShowMe == <<" ","S","h","o","w"," ","M","E"," ">>
T_showme == <<"s","h","o","w","m","e">>

T_hi == <<"h","i">>
T_GENERATE == <<"G","E","N","E","R","A","T","E">>
T_Visualize == <<"V","i","s","u","a","l","i","z","e"," ","i","t">>
T_recreate == <<"r","e","c","r","e","a","t","e">>
T_creat == <<"c","r","e","a","t"," ","e">>
T_show == <<"s","h","o","w"," ","m","y">>

F_Hel == <<"H","e","l">>
F_lo == <<"l","o","!">>

Caption == <<"B","o","o","m",".">>
WelcomeText == <<"Y","o",".">>

ImageUrls == {"url1"}
NoImage == "none"
\* What awaiting generateLeoImage yields: a URL, a falsy value, or a rejection.
ImageOutcomes == ImageUrls \cup {NoImage, "reject"}

Whitespace == {" ", "\t", "\n"}

RECURSIVE TrimStart(_)
TrimStart(s) ==
    IF s = <<>> THEN s
    ELSE IF Head(s) \in Whitespace THEN TrimStart(Tail(s)) ELSE s

RECURSIVE TrimEnd(_)
TrimEnd(s) ==
    IF s = <<>> THEN s
    ELSE IF s[Len(s)] \in Whitespace THEN TrimEnd(SubSeq(s, 1, Len(s) - 1)) ELSE s

\* String.prototype.trim
Trim(s) == TrimEnd(TrimStart(s))

UpperCase == <<"A","B","C","D","E","F","G","H","I","J","K","L","M",
               "N","O","P","Q","R","S","T","U","V","W","X","Y","Z">>
LowerCase == <<"a","b","c","d","e","f","g","h","i","j","k","l","m",
               "n","o","p","q","r","s","t","u","v","w","x","y","z">>

FoldChar(c) ==
    IF \E i \in 1..Len(UpperCase) : UpperCase[i] = c
    THEN LowerCase[CHOOSE i \in 1..Len(UpperCase) : UpperCase[i] = c]
    ELSE c

\* the /i flag: letters compare without case
Fold(s) == [i \in 1..Len(s) |-> FoldChar(s[i])]

Contains(s, w) ==
    \E i \in 1..(Len(s) - Len(w) + 1) : SubSeq(s, i, i + Len(w) - 1) = w

Keywords ==
    { <<"g","e","n","e","r","a","t","e">>,
      <<"v","i","s","u","a","l","i","z","e">>,
      <<"c","r","e","a","t","e">>,
      <<"s","h","o","w"," ","m","e">> }

IsImageReq_CaseSensitive(text) == \E w \in Keywords : Contains(text, w)

\* /generate|visualize|create|show me/i.test(textToSend)
IsImageReq(text) == \E w \in Keywords : Contains(Fold(text), w)

\* JavaScript truthiness of a string (textOverride || input)
Truthy(s) == s # <<>>

SliceLast6_All(s) == s

\* messages.slice(-6)
SliceLast6(s) == IF Len(s) <= 6 THEN s ELSE SubSeq(s, Len(s) - 5, Len(s))

\* the history argument of chatWithLeoStream
HistoryOf(msgs) ==
    [i \in 1..Len(SliceLast6(msgs)) |->
        [role |-> IF SliceLast6(msgs)[i].role = "leo" THEN "model" ELSE "user",
         text |-> SliceLast6(msgs)[i].text]]

----------------------------------------------------------------------------
(* What each specification explores: inputs is what the user may type into *)
(* the input field, overrides the textOverride argument (empty: absent, or *)
(* the text of a verify request), frags the fragments a stream may yield,  *)
(* history whether the history argument of chatWithLeoStream is recorded.  *)

ChatScope ==
    [subs |-> MaxSubs, chunks |-> MaxChunks, now |-> MaxNow,
     inputs |-> {T_empty, T_hi},
     overrides |-> {T_empty, T_blank, T_ShowMe},
     frags |-> {F_Hel}, history |-> FALSE]

StreamScope ==
    [subs |-> StreamSubs, chunks |-> StreamChunks, now |-> StreamNow,
     inputs |-> {T_empty, T_blank, T_weather},
     overrides |-> {T_empty, T_generate},
     frags |-> {F_Hel, F_lo}, history |-> FALSE]

IntentScope ==
    [subs |-> IntentSubs, chunks |-> IntentChunks, now |-> IntentNow,
     inputs |-> {T_empty, T_weather},
     overrides |-> {T_empty, T_blank, T_generate, T_ShowMe, T_GENERATE,
                    T_Visualize, T_recreate, T_showme, T_creat, T_show},
     frags |-> {F_Hel}, history |-> FALSE]

HistoryScope ==
    [subs |-> HistSubs, chunks |-> HistChunks, now |-> HistNow,
     inputs |-> {T_empty},
     overrides |-> {T_empty, T_hi},
     frags |-> {F_Hel}, history |-> TRUE]

ThinkingScope ==
    [subs |-> ThinkSubs, chunks |-> ThinkChunks, now |-> ThinkNow,
     inputs |-> {T_empty, T_weather},
     overrides |-> {T_empty, T_hi, T_generate, T_ShowMe},
     frags |-> {F_Hel}, history |-> FALSE]

LiveScope ==
    [toggles |-> MaxToggles, msgs |-> MaxMsgs, time |-> MaxTime,
     mic |-> MaxMic]

PlayScope == [msgs |-> PlayMsgs, time |-> PlayTime]

SessionScope == [toggles |-> SessToggles, mic |-> SessMic]

----------------------------------------------------------------------------
(* Initial state: the component as first rendered. *)

WelcomeMsg ==
    [id |-> "welcome", role |-> "leo", text |-> WelcomeText, timestamp |-> 0,
     imageUrl |-> NoImage, owner |-> 0]

\* the component as first rendered, checked within scope sc
FirstRender(sc) ==
    /\ scope = sc
    /\ messages = <<WelcomeMsg>>
    /\ input = T_empty
    /\ emotion = "neutral"
    /\ isSpeaking = FALSE
    /\ isThinking = FALSE
    /\ isLive = FALSE
    /\ audioInit = FALSE
    /\ now = 0
    /\ subs = <<>>
    /\ toggles = <<>>
    /\ sessions = <<>>
    /\ liveSessionRef = 0
    /\ nextStartTime = 0
    /\ activeSources = {}
    /\ currentTime = 0
    /\ frames = <<>>
    /\ msgCount = 0
    /\ interrupts = {}
    /\ sentFrames = <<>>

----------------------------------------------------------------------------
(* Chat orchestration: handleSend (App.tsx:138-187). *)

\* Date.now().toString()
DateNowString == ToString(now)

\* some accepted submission has not finished (image pending or stream open)
InFlight == \E i \in DOMAIN subs : subs[i].pc # "done"

\* line 140: if (!textToSend.trim() || leoState.isThinking) return;
Rejects(textToSend, thinking) == Trim(textToSend) = <<>> \/ thinking

\* line 143-144: the user message, appended
WithUserMsg(msgs, text, n) ==
    Append(msgs, [id |-> DateNowString, role |-> "user", text |-> text,
                  timestamp |-> now, imageUrl |-> NoImage, owner |-> n])

\* line 154-160: the caption message carrying the image, appended
WithImageMsg(msgs, url, n) ==
    Append(msgs, [id |-> DateNowString, role |-> "leo", text |-> Caption,
                  timestamp |-> now, imageUrl |-> url, owner |-> n])

WithPlaceholder_Forgotten(msgs, leoId, n) == msgs

\* line 167-168: the empty assistant placeholder, appended
WithPlaceholder(msgs, leoId, n) ==
    Append(msgs, [id |-> leoId, role |-> "leo", text |-> <<>>,
                  timestamp |-> now, imageUrl |-> NoImage, owner |-> n])

ImageSucceeded_Always(outcome) == TRUE

\* line 153: if (imageUrl)
ImageSucceeded(outcome) == outcome \in ImageUrls

\* line 181: fullText += chunk
Accumulate(fullText, chunk) == fullText \o chunk

\* line 182: prev.map(m => m.id === leoId ? { ...m, text: fullText } : m)
ApplyChunk(msgs, leoId, fullText) ==
    [k \in 1..Len(msgs) |->
        IF msgs[k].id = leoId THEN [msgs[k] EXCEPT !.text = fullText]
        ELSE msgs[k]]

TextPath_StillThinking(msgs, i, sub) ==
    /\ messages' = WithPlaceholder(msgs, DateNowString, i)
    /\ LET started == [sub EXCEPT !.pc = "stream", !.leoId = DateNowString,
                                  !.streamRequested = TRUE]
       IN subs' = IF i \in DOMAIN subs THEN [subs EXCEPT ![i] = started]
                  ELSE Append(subs, started)
    /\ isThinking' = TRUE
    /\ emotion' = "neutral"

\* lines 167-178, run without suspension: placeholder, history, the stream
\* is requested, thinking is cleared.  msgs is the list the placeholder is
\* appended to and sub the submission's record so far.
TextPath(msgs, i, sub) ==
    /\ messages' = WithPlaceholder(msgs, DateNowString, i)
    /\ LET started == [sub EXCEPT !.pc = "stream", !.leoId = DateNowString,
                                  !.streamRequested = TRUE]
       IN subs' = IF i \in DOMAIN subs THEN [subs EXCEPT ![i] = started]
                  ELSE Append(subs, started)
    /\ isThinking' = FALSE
    /\ emotion' = "neutral"

\* handleSend(textOverride) up to its first await (or to the stream loop)
HandleSend(textOverride) ==
    LET textToSend == IF Truthy(textOverride) THEN textOverride ELSE input
        n == Len(subs) + 1
        sub == [text |-> textToSend, pc |-> "image", leoId |-> "",
                fullText |-> <<>>, frags |-> <<>>,
                history |-> IF scope.history THEN HistoryOf(messages) ELSE <<>>,
                imgRequested |-> FALSE, imgOutcome |-> "unset",
                streamRequested |-> FALSE, failed |-> FALSE, threw |-> FALSE]
    IN  IF Rejects(textToSend, isThinking)
        THEN UNCHANGED vars
        ELSE /\ n <= scope.subs
             /\ audioInit' = TRUE
             /\ input' = T_empty
             /\ IF IsImageReq(textToSend)
                THEN /\ messages' = WithUserMsg(messages, textToSend, n)
                     /\ subs' = Append(subs, [sub EXCEPT !.imgRequested = TRUE])
                     /\ isThinking' = TRUE
                     /\ UNCHANGED emotion
                ELSE TextPath(WithUserMsg(messages, textToSend, n), n, sub)
             /\ UNCHANGED <<now, liveVars, scope>>

\* the await of generateLeoImage (line 152) completes with outcome
ImageDone(i, outcome) ==
    /\ i \in DOMAIN subs
    /\ subs[i].pc = "image"
    /\ IF outcome = "reject"
       THEN \* catch (e) { console.error(e); } and on to the text path
            TextPath(messages, i, [subs[i] EXCEPT !.imgOutcome = outcome])
       ELSE IF ImageSucceeded(outcome)
       THEN /\ messages' = WithImageMsg(messages, outcome, i)
            /\ subs' = [subs EXCEPT ![i].pc = "done", ![i].imgOutcome = outcome]
            /\ isThinking' = FALSE
            /\ emotion' = "happy"
       ELSE TextPath(messages, i, [subs[i] EXCEPT !.imgOutcome = outcome])
    /\ UNCHANGED <<input, now, audioInit, liveVars, scope>>

RECURSIVE SumFrags(_)
SumFrags(i) == IF i = 0 THEN 0 ELSE Len(subs[i].frags) + SumFrags(i - 1)

\* history: the number of fragments delivered so far
ChunksSeen == SumFrags(Len(subs))

\* one iteration of the for await loop (lines 180-183)
StreamChunk(i, chunk) ==
    /\ i \in DOMAIN subs
    /\ subs[i].pc = "stream"
    /\ ChunksSeen < scope.chunks
    /\ LET fullText == Accumulate(subs[i].fullText, chunk)
       IN /\ subs' = [subs EXCEPT ![i].fullText = fullText,
                                  ![i].frags = Append(@, chunk)]
          /\ messages' = ApplyChunk(messages, subs[i].leoId, fullText)
    /\ UNCHANGED <<input, isThinking, now, emotion, audioInit, liveVars, scope>>

\* the stream ends: the loop and handleSend return
StreamEnd(i) ==
    /\ i \in DOMAIN subs
    /\ subs[i].pc = "stream"
    /\ subs' = [subs EXCEPT ![i].pc = "done"]
    /\ UNCHANGED <<messages, input, isThinking, now, emotion,
                   audioInit, liveVars, scope>>

\* the stream rejects: catch (error) (lines 184-186)
StreamFail(i) ==
    /\ i \in DOMAIN subs
    /\ subs[i].pc = "stream"
    /\ subs' = [subs EXCEPT ![i].pc = "done", ![i].failed = TRUE]
    /\ isThinking' = FALSE
    /\ emotion' = "concerned"
    /\ UNCHANGED <<messages, input, now, audioInit, liveVars, scope>>

\* onChange={(e) => setInput(e.target.value)} (line 239)
SetInput(t) ==
    /\ input' = t
    /\ UNCHANGED <<messages, isThinking, now, subs, emotion,
                   audioInit, liveVars, scope>>

\* wall-clock time passes
Tick ==
    /\ now < scope.now
    /\ \E k \in DOMAIN messages : messages[k].id = DateNowString
    /\ now' = now + 1
    /\ UNCHANGED <<messages, input, isThinking, subs, emotion,
                   audioInit, liveVars, scope>>

NextChat ==
    \/ \E t \in scope.inputs : SetInput(t)
    \/ \E o \in scope.overrides : HandleSend(o)
    \/ \E i \in DOMAIN subs, outcome \in ImageOutcomes : ImageDone(i, outcome)
    \/ \E i \in DOMAIN subs, chunk \in scope.frags : StreamChunk(i, chunk)
    \/ \E i \in DOMAIN subs : StreamEnd(i)
    \/ \E i \in DOMAIN subs : StreamFail(i)
    \/ Tick

InitChat == FirstRender(ChatScope)

InitStream == FirstRender(StreamScope)

InitIntent == FirstRender(IntentScope)

\* the text path only: what handleSend does for texts without image intent
NextText ==
    \/ \E t \in scope.inputs : SetInput(t)
    \/ \E o \in scope.overrides : HandleSend(o)
    \/ \E i \in DOMAIN subs, chunk \in scope.frags : StreamChunk(i, chunk)
    \/ \E i \in DOMAIN subs : StreamEnd(i)
    \/ \E i \in DOMAIN subs : StreamFail(i)
    \/ Tick

InitHistory == FirstRender(HistoryScope)

SpecChat == InitChat /\ [][NextChat]_vars

SpecStream == InitStream /\ [][NextChat]_vars

SpecIntent == InitIntent /\ [][NextChat]_vars

SpecHistory == InitHistory /\ [][NextText]_vars

InitThinking == FirstRender(ThinkingScope)

\* every awaited image request resolves or rejects, and every stream ends
\* or fails, in the end
RequestsResolve ==
    \A i \in 1..ThinkSubs :
        /\ WF_vars(\E outcome \in ImageOutcomes : ImageDone(i, outcome))
        /\ WF_vars(StreamEnd(i) \/ StreamFail(i))

SpecThinking == InitThinking /\ [][NextChat]_vars /\ RequestsResolve

----------------------------------------------------------------------------
(* Live session: toggleLive and the vendor callbacks (App.tsx:54-136). *)

\* buffer.duration of a decoded frame, in ticks of the output clock
Durations == {1, 2}

\* a message of the vendor: serverContent.interrupted and the audio of
\* serverContent.modelTurn.parts[0].inlineData (audio 0: none)
ServerMessages == [interrupted : BOOLEAN, audio : {0} \cup Durations]

Max(a, b) == IF a >= b THEN a ELSE b

ConnectsOn_Always(outcome) == TRUE

\* lines 64-65: connect runs only once the awaited getUserMedia has resolved
ConnectsOn(outcome) == outcome = "granted"

NextStartAfterInterrupt_Kept(next) == next

\* line 93: nextStartTimeRef.current = 0
NextStartAfterInterrupt(next) == 0

StartTimeFor_ClockOnly(next, clock) == clock

\* line 108: Math.max(nextStartTimeRef.current, currentTime)
StartTimeFor(next, clock) == Max(next, clock)

NextStartAfter_Unadvanced(start, dur) == start

\* line 110: nextStartTimeRef.current += buffer.duration
NextStartAfter(start, dur) == start + dur

\* decodeAudioBuffer (services/geminiService): an asynchronous decode; the
\* await of line 102 is a suspension point, and nothing orders the
\* completions of two pending decodes or bounds how long one takes
DecodeMayResolve(f) == frames[f].state = "decoding"

NewSession_Capturing(t) ==
    [state |-> "connecting", toggle |-> t, capturing |-> TRUE, opened |-> FALSE]

\* line 65: what ai.live.connect starts; the capture graph is only built
\* by onopen (opened: history, onopen has run)
NewSession(t) ==
    [state |-> "connecting", toggle |-> t, capturing |-> FALSE, opened |-> FALSE]

\* toggleLive up to its await (lines 54-64), when not live
ToggleLive ==
    /\ ~isLive
    /\ Len(toggles) < scope.toggles
    /\ audioInit' = TRUE
    /\ toggles' = Append(toggles, [pc |-> "mic", outcome |-> "pending",
                                   threw |-> FALSE, session |-> 0])
    /\ UNCHANGED <<chatVars, emotion, isSpeaking, isLive, sessions,
                   liveSessionRef, nextStartTime, activeSources, currentTime,
                   frames, msgCount, interrupts, sentFrames, scope>>

\* toggleLive when live: window.location.reload() (lines 55-58); the page
\* starts again from its first render
Reload ==
    /\ isLive
    /\ messages' = <<WelcomeMsg>>
    /\ input' = T_empty
    /\ emotion' = "neutral"
    /\ isSpeaking' = FALSE
    /\ isThinking' = FALSE
    /\ isLive' = FALSE
    /\ audioInit' = FALSE
    /\ subs' = <<>>
    /\ toggles' = <<>>
    /\ sessions' = <<>>
    /\ liveSessionRef' = 0
    /\ nextStartTime' = 0
    /\ activeSources' = {}
    /\ currentTime' = 0
    /\ frames' = <<>>
    /\ msgCount' = 0
    /\ interrupts' = {}
    /\ sentFrames' = <<>>
    /\ UNCHANGED <<now, scope>>

\* the await of getUserMedia (line 64) completes: granted, or denied and
\* caught by catch (err) (lines 133-135)
MicResolved(t, outcome) ==
    /\ t \in DOMAIN toggles
    /\ toggles[t].pc = "mic"
    /\ IF ConnectsOn(outcome)
       THEN /\ sessions' = Append(sessions, NewSession(t))
            /\ liveSessionRef' = Len(sessions) + 1
            /\ toggles' = [toggles EXCEPT ![t].pc = "done",
                                          ![t].outcome = outcome,
                                          ![t].session = Len(sessions) + 1]
       ELSE /\ toggles' = [toggles EXCEPT ![t].pc = "done",
                                          ![t].outcome = outcome]
            /\ UNCHANGED <<sessions, liveSessionRef>>
    /\ UNCHANGED <<chatVars, emotion, audioInit, isSpeaking, isLive,
                   nextStartTime, activeSources, currentTime, frames,
                   msgCount, interrupts, sentFrames, scope>>

\* callbacks.onopen (lines 68-87)
OnOpen(c) ==
    /\ c \in DOMAIN sessions
    /\ sessions[c].state = "connecting"
    /\ sessions' = [sessions EXCEPT ![c].state = "open", ![c].capturing = TRUE,
                                    ![c].opened = TRUE]
    /\ isLive' = TRUE
    /\ emotion' = "happy"
    /\ UNCHANGED <<chatVars, audioInit, isSpeaking, toggles, liveSessionRef,
                   nextStartTime, activeSources, currentTime, frames,
                   msgCount, interrupts, sentFrames, scope>>

\* scriptProcessor.onaudioprocess (lines 74-83): the frame is sent once the
\* session promise has resolved
OnAudioProcess(c) ==
    /\ c \in DOMAIN sessions
    /\ sessions[c].capturing
    /\ Len(sentFrames) < scope.mic
    /\ sentFrames' = Append(sentFrames, [session |-> c,
                                         state |-> sessions[c].state])
    /\ UNCHANGED <<chatVars, emotion, audioInit, isSpeaking, isLive, toggles,
                   sessions, liveSessionRef, nextStartTime, activeSources,
                   currentTime, frames, msgCount, interrupts, scope>>

\* callbacks.onmessage up to its await or return (lines 88-102)
OnMessage(c, msg) ==
    /\ c \in DOMAIN sessions
    /\ sessions[c].state = "open"
    /\ msgCount < scope.msgs
    /\ msgCount' = msgCount + 1
    /\ IF msg.interrupted
       THEN /\ frames' = [f \in DOMAIN frames |->
                            IF f \in activeSources
                            THEN [frames[f] EXCEPT !.stopped = TRUE]
                            ELSE frames[f]]
            /\ activeSources' = {}
            /\ nextStartTime' = NextStartAfterInterrupt(nextStartTime)
            /\ interrupts' = interrupts \cup {msgCount + 1}
       ELSE IF msg.audio # 0 /\ audioInit
       THEN /\ frames' = Append(frames,
                            [session |-> c, arrived |-> msgCount + 1,
                             dur |-> msg.audio, state |-> "decoding",
                             start |-> 0, stopped |-> FALSE, epoch |-> 0])
            /\ UNCHANGED <<activeSources, nextStartTime, interrupts>>
       ELSE UNCHANGED <<frames, activeSources, nextStartTime, interrupts>>
    /\ UNCHANGED <<chatVars, emotion, audioInit, isSpeaking, isLive, toggles,
                   sessions, liveSessionRef, currentTime, sentFrames, scope>>

\* callbacks.onmessage after its await (lines 104-120): the decoded buffer
\* is scheduled
Schedule(f) ==
    /\ f \in DOMAIN frames
    /\ DecodeMayResolve(f)
    /\ LET start == StartTimeFor(nextStartTime, currentTime)
       IN /\ frames' = [frames EXCEPT ![f].state = "scheduled",
                                      ![f].start = start,
                                      ![f].epoch = Cardinality(interrupts)]
          /\ nextStartTime' = NextStartAfter(start, frames[f].dur)
    /\ activeSources' = activeSources \cup {f}
    /\ isSpeaking' = TRUE
    /\ UNCHANGED <<chatVars, emotion, audioInit, isLive, toggles, sessions,
                   liveSessionRef, currentTime, msgCount, interrupts,
                   sentFrames, scope>>

SpeakingAfterEnded_Kept(active, speaking) == speaking

\* lines 117-119: if (activeSources.current.size === 0) isSpeaking: false
SpeakingAfterEnded(active, speaking) ==
    IF active = {} THEN FALSE ELSE speaking

\* source.onended (lines 115-120): the buffer has played to its end, or
\* stop() was called on it
OnEnded(f) ==
    /\ f \in DOMAIN frames
    /\ frames[f].state = "scheduled"
    /\ frames[f].stopped \/ currentTime >= frames[f].start + frames[f].dur
    /\ frames' = [frames EXCEPT ![f].state = "ended"]
    /\ activeSources' = activeSources \ {f}
    /\ isSpeaking' = SpeakingAfterEnded(activeSources \ {f}, isSpeaking)
    /\ UNCHANGED <<chatVars, emotion, audioInit, isLive, toggles, sessions,
                   liveSessionRef, nextStartTime, currentTime, msgCount,
                   interrupts, sentFrames, scope>>

\* callbacks.onerror (line 123): logs only
OnError(c) ==
    /\ c \in DOMAIN sessions
    /\ sessions[c].state # "closed"
    /\ UNCHANGED vars

\* callbacks.onclose (line 124)
OnClose(c) ==
    /\ c \in DOMAIN sessions
    /\ sessions[c].state # "closed"
    /\ sessions' = [sessions EXCEPT ![c].state = "closed"]
    /\ isLive' = FALSE
    /\ UNCHANGED <<chatVars, emotion, audioInit, isSpeaking, toggles,
                   liveSessionRef, nextStartTime, activeSources, currentTime,
                   frames, msgCount, interrupts, sentFrames, scope>>

\* the output context's clock advances
AdvanceTime ==
    /\ audioInit
    /\ currentTime < scope.time
    /\ currentTime' = currentTime + 1
    /\ UNCHANGED <<chatVars, emotion, audioInit, isSpeaking, isLive, toggles,
                   sessions, liveSessionRef, nextStartTime, activeSources,
                   frames, msgCount, interrupts, sentFrames, scope>>

\* the life cycle of the sessions
NextSession ==
    \/ ToggleLive
    \/ Reload
    \/ \E t \in DOMAIN toggles, outcome \in {"granted", "denied"} :
          MicResolved(t, outcome)
    \/ \E c \in DOMAIN sessions : OnOpen(c)
    \/ \E c \in DOMAIN sessions : OnAudioProcess(c)
    \/ \E c \in DOMAIN sessions : OnError(c)
    \/ \E c \in DOMAIN sessions : OnClose(c)

\* what an open session receives and plays
NextPlayback ==
    \/ \E c \in DOMAIN sessions, msg \in ServerMessages : OnMessage(c, msg)
    \/ \E f \in DOMAIN frames : Schedule(f)
    \/ \E f \in DOMAIN frames : OnEnded(f)
    \/ \E c \in DOMAIN sessions : OnClose(c)
    \/ AdvanceTime

NextLive == NextSession \/ NextPlayback

\* the state once toggleLive has been granted the microphone and the
\* vendor has called onopen
InitPlayback ==
    /\ scope = PlayScope
    /\ messages = <<WelcomeMsg>>
    /\ input = T_empty
    /\ emotion = "happy"
    /\ isSpeaking = FALSE
    /\ isThinking = FALSE
    /\ isLive = TRUE
    /\ audioInit = TRUE
    /\ now = 0
    /\ subs = <<>>
    /\ toggles = <<[pc |-> "done", outcome |-> "granted", threw |-> FALSE,
                    session |-> 1]>>
    /\ sessions = <<[state |-> "open", toggle |-> 1, capturing |-> TRUE,
                     opened |-> TRUE]>>
    /\ liveSessionRef = 1
    /\ nextStartTime = 0
    /\ activeSources = {}
    /\ currentTime = 0
    /\ frames = <<>>
    /\ msgCount = 0
    /\ interrupts = {}
    /\ sentFrames = <<>>

InitLive == FirstRender(LiveScope)

InitSession == FirstRender(SessionScope)

SpecLive == InitLive /\ [][NextLive]_vars

SpecPlayback == InitPlayback /\ [][NextPlayback]_vars

SpecSession == InitSession /\ [][NextSession]_vars

----------------------------------------------------------------------------
(* Properties of the chat orchestration. *)

\* the positions of the messages submission i appended, by role
Owned(i, role) ==
    {k \in DOMAIN messages : messages[k].owner = i /\ messages[k].role = role}

TheOne(S) == CHOOSE k \in S : TRUE

RECURSIVE Flatten(_)
Flatten(ss) == IF ss = <<>> THEN <<>> ELSE Head(ss) \o Flatten(Tail(ss))

(* C1: every accepted submission appends exactly one user message and,   *)
(* once its call has finished, exactly one assistant message after it    *)
(* (the caption with its image, or the text placeholder); nothing else   *)
(* is ever appended, and the user messages stand in submission order.    *)
C1_OneUserOneAssistant ==
    /\ \A k \in DOMAIN messages :
          (messages[k].owner = 0) <=> (k = 1)
    /\ \A k \in DOMAIN messages : messages[k].owner \in 0..Len(subs)
    /\ \A i \in DOMAIN subs :
          /\ Cardinality(Owned(i, "user")) = 1
          /\ Cardinality(Owned(i, "leo")) <= 1
          /\ subs[i].pc = "image" => Owned(i, "leo") = {}
          /\ subs[i].pc # "image" => Cardinality(Owned(i, "leo")) = 1
          /\ \A u \in Owned(i, "user"), a \in Owned(i, "leo") :
                /\ u < a
                /\ IF subs[i].streamRequested
                   THEN messages[a].imageUrl = NoImage
                   ELSE messages[a].imageUrl \in ImageUrls
    /\ \A i \in DOMAIN subs, j \in DOMAIN subs :
          i < j => TheOne(Owned(i, "user")) < TheOne(Owned(j, "user"))

\* two finished submissions, one answered with an image, one with text
C1_Witness ==
    /\ Len(subs) = 2
    /\ \A i \in DOMAIN subs : subs[i].pc = "done"
    /\ \E i \in DOMAIN subs : subs[i].imgOutcome \in ImageUrls
    /\ \E i \in DOMAIN subs : subs[i].streamRequested
    /\ Len(messages) = 5

(* C2: a handleSend call made while an earlier submission is in flight   *)
(* (image pending or stream not ended), or with blank text, leaves the   *)
(* message list unchanged.  A rejected call changes nothing at all, so   *)
(* the calls that matter are those that start a submission.              *)
C2_NoSendWhileInFlight ==
    [][ (/\ Len(subs') > Len(subs)
         /\ \/ InFlight
            \/ Trim(subs'[Len(subs')].text) = <<>>)
        => messages' = messages ]_vars

(* C3: once k >= 1 fragments of a submission's stream have been applied, *)
(* the text of its placeholder is the concatenation of those fragments   *)
(* in arrival order.                                                     *)
C3_PlaceholderIsConcat ==
    \A i \in DOMAIN subs :
        (subs[i].streamRequested /\ subs[i].frags # <<>>) =>
            \A a \in Owned(i, "leo") :
                messages[a].text = Flatten(subs[i].frags)

\* the texts of the explored inputs that hold one of the four keywords in
\* any case, and those that do not
WithIntent == {T_generate, T_ShowMe, T_GENERATE, T_Visualize, T_recreate}
WithoutIntent == {T_weather, T_hi, T_showme, T_creat, T_show}

C9_State ==
    \A i \in DOMAIN subs :
        /\ subs[i].text \in WithIntent \cup WithoutIntent
        /\ subs[i].imgRequested <=> subs[i].text \in WithIntent
        /\ subs[i].imgOutcome \in ImageUrls =>
              /\ subs[i].pc = "done"
              /\ ~subs[i].streamRequested
              /\ \E a \in DOMAIN messages :
                    /\ Owned(i, "leo") = {a}
                    /\ messages[a].imageUrl = subs[i].imgOutcome

C9_Step ==
    \A i \in DOMAIN subs :
        (subs[i].pc = "image" /\ subs'[i].imgOutcome \in ImageUrls) =>
            /\ Len(messages') = Len(messages) + 1
            /\ SubSeq(messages', 1, Len(messages)) = messages
            /\ messages'[Len(messages')].role = "leo"
            /\ messages'[Len(messages')].text = Caption
            /\ messages'[Len(messages')].imageUrl = subs'[i].imgOutcome
            /\ subs'[i].pc = "done"

(* C9: the image endpoint is requested for a submission exactly when its *)
(* text holds generate, visualize, create or show me in any case; when   *)
(* the request yields a URL, one assistant message with the caption and  *)
(* that URL is appended and the text stream is never requested.          *)
C9_ImageIntent == [](C9_State) /\ [][C9_Step]_vars

\* a mixed-case "Show ME" submission answered with the image
C9_Witness ==
    \E i \in DOMAIN subs :
        /\ subs[i].text = T_ShowMe
        /\ subs[i].imgOutcome \in ImageUrls
        /\ subs[i].pc = "done"
        /\ messages[Len(messages)].imageUrl = subs[i].imgOutcome

C10_State ==
    \A i \in DOMAIN subs :
        subs[i].imgOutcome \in {NoImage, "reject"} =>
            /\ subs[i].imgRequested
            /\ subs[i].streamRequested
            /\ subs[i].pc \in {"stream", "done"}
            /\ ~subs[i].threw
            /\ Cardinality(Owned(i, "leo")) = 1
            /\ \A a \in Owned(i, "leo") : messages[a].imageUrl = NoImage

C10_Step ==
    \A i \in DOMAIN subs :
        (subs[i].pc = "image" /\ subs'[i].imgOutcome \in {NoImage, "reject"}) =>
            /\ Len(messages') = Len(messages) + 1
            /\ SubSeq(messages', 1, Len(messages)) = messages
            /\ messages'[Len(messages')].role = "leo"
            /\ messages'[Len(messages')].text = <<>>
            /\ messages'[Len(messages')].imageUrl = NoImage
            /\ messages'[Len(messages')].id = subs'[i].leoId
            /\ subs'[i].pc = "stream"

(* C10: when the image request of a submission rejects or yields no      *)
(* image, no image message is appended; the empty placeholder is         *)
(* appended and the text stream requested, and nothing is thrown.        *)
C10_ImageFallback == [](C10_State) /\ [][C10_Step]_vars

\* a rejected image request whose submission went on to stream text
C10_Witness ==
    \E i \in DOMAIN subs :
        /\ subs[i].imgOutcome = "reject"
        /\ subs[i].streamRequested
        /\ subs[i].frags # <<>>

(* C11: the step in which the text stream of a submission fails, after   *)
(* j >= 0 of its fragments were applied, sets emotion to "concerned" and *)
(* isThinking to false, throws nothing, leaves the message list as it    *)
(* was, and the submission's placeholder then holds exactly the          *)
(* concatenation of those j fragments.                                   *)
C11_StreamFailure ==
    [][ \A i \in DOMAIN subs :
          (/\ i \in DOMAIN subs'
           /\ subs[i].pc = "stream"
           /\ subs'[i].failed) =>
              /\ emotion' = "concerned"
              /\ isThinking' = FALSE
              /\ ~subs'[i].threw
              /\ messages' = messages
              /\ \A a \in Owned(i, "leo") :
                    messages'[a].text = Flatten(subs[i].frags) ]_vars

(* C12: no step removes or reorders a message, and the only change to an *)
(* existing message is a new text for the assistant placeholder of the   *)
(* submission whose stream has just delivered a fragment; every other    *)
(* message, the user message of that submission included, stays as it    *)
(* was.                                                                  *)
C12_AppendOnly ==
    [][ /\ Len(messages') >= Len(messages)
        /\ \A k \in DOMAIN messages :
              \/ messages'[k] = messages[k]
              \/ /\ messages'[k] =
                       [messages[k] EXCEPT !.text = messages'[k].text]
                 /\ messages[k].role = "leo"
                 /\ \E i \in DOMAIN subs :
                       /\ messages[k].owner = i
                       /\ subs[i].pc = "stream"
                       /\ Len(subs'[i].frags) = Len(subs[i].frags) + 1
                       /\ messages'[k].text = subs'[i].fullText ]_vars

C17_Step ==
    \A i \in DOMAIN subs' :
        /\ (i \notin DOMAIN subs /\ subs'[i].pc = "image") => isThinking'
        /\ (i \notin DOMAIN subs /\ subs'[i].pc # "image") => ~isThinking'
        /\ (i \in DOMAIN subs /\ subs[i].pc = "image" /\ subs'[i].pc # "image")
              => ~isThinking'
        /\ (i \in DOMAIN subs /\ ~subs[i].failed /\ subs'[i].failed)
              => ~isThinking'

(* C17: a submission that sets isThinking and awaits its image request   *)
(* passes that await in the end, and the step in which it does (image    *)
(* posted, or placeholder posted and stream requested) clears the flag,  *)
(* as does the start of the stream of a submission without image intent  *)
(* and every stream failure; so neither the flag nor a submission's     *)
(* wait for its image lasts for ever.                                    *)
C17_ThinkingClears ==
    /\ [][C17_Step]_vars
    /\ []<>(~isThinking)
    /\ \A i \in 1..ThinkSubs :
          []<>(~(i \in DOMAIN subs /\ subs[i].pc = "image"))

\* a submission whose image request was rejected and whose stream failed
\* after a fragment; the flag is clear
C17_Witness ==
    /\ ~isThinking
    /\ \E i \in DOMAIN subs :
          /\ subs[i].imgOutcome = "reject"
          /\ subs[i].frags # <<>>
          /\ subs[i].failed

\* what chatWithLeoStream is to receive for a list: its last n entries
\* (all of them when there are fewer), each as role and text
Window(msgs, n) ==
    LET m == IF Len(msgs) < n THEN Len(msgs) ELSE n
    IN [k \in 1..m |->
          [role |-> IF msgs[Len(msgs) - m + k].role = "user" THEN "user"
                    ELSE "model",
           text |-> msgs[Len(msgs) - m + k].text]]

C15_State == \A i \in DOMAIN subs : Len(subs[i].history) <= 6

C15_Step ==
    \A i \in DOMAIN subs' :
        IF i \in DOMAIN subs
        THEN subs'[i].history = subs[i].history
        ELSE subs'[i].history = Window(messages, 6)

(* C15: the history a submission passes to chatWithLeoStream is the last *)
(* six messages (all of them when fewer) of the list as it stood when    *)
(* handleSend was called, in list order, with role leo given as model;   *)
(* it holds at most six entries and neither the submission's own user    *)
(* message nor its placeholder.                                          *)
C15_HistoryWindow == [](C15_State) /\ [][C15_Step]_vars

\* a submission made when the list held seven messages: the window cut
\* the welcome message off
C15_Witness ==
    \E i \in DOMAIN subs :
        /\ subs[i].streamRequested
        /\ Len(subs[i].history) = 6
        /\ subs[i].history[1].role = "user"
        /\ \E k \in DOMAIN subs[i].history : subs[i].history[k].role = "model"

----------------------------------------------------------------------------
(* Properties of the live session. *)

(* C4: once an interruption has been handled, no frame that arrived at   *)
(* onmessage before it is scheduled or playing, frames whose decode was  *)
(* pending at the interruption included.                                 *)
C4_NoFrameSurvivesInterrupt ==
    \A f \in DOMAIN frames, k \in interrupts :
        frames[f].arrived < k =>
            ~(frames[f].state = "scheduled" /\ ~frames[f].stopped)

(* C5: the step that handles an interrupted message stops every source   *)
(* of the active set, empties the set and sets the next start time to 0, *)
(* all in that one step, and schedules or enqueues no frame, even when   *)
(* the message carries audio as well.                                    *)
C5_InterruptIsAtomic ==
    [][ (\E k \in interrupts' : k \notin interrupts) =>
          /\ activeSources' = {}
          /\ nextStartTime' = 0
          /\ DOMAIN frames' = DOMAIN frames
          /\ \A f \in DOMAIN frames :
                /\ frames'[f].state = frames[f].state
                /\ frames'[f].start = frames[f].start
                /\ f \in activeSources => frames'[f].stopped
                /\ f \notin activeSources =>
                      frames'[f].stopped = frames[f].stopped ]_vars

\* an interruption has just stopped a scheduled source
C5_Witness ==
    /\ interrupts # {}
    /\ activeSources = {}
    /\ nextStartTime = 0
    /\ \E f \in DOMAIN frames :
          /\ frames[f].stopped
          /\ frames[f].state = "scheduled"
          /\ frames[f].start + frames[f].dur > 1

C6_NoOverlap ==
    \A f \in activeSources, g \in activeSources :
        f # g =>
            \/ frames[f].start + frames[f].dur <= frames[g].start
            \/ frames[g].start + frames[g].dur <= frames[f].start

C6_Step ==
    \A f \in DOMAIN frames :
        (/\ f \in DOMAIN frames'
         /\ frames[f].state = "decoding"
         /\ frames'[f].state = "scheduled") =>
            /\ frames'[f].start =
                  IF nextStartTime >= currentTime THEN nextStartTime
                  ELSE currentTime
            /\ nextStartTime' = frames'[f].start + frames[f].dur
            /\ activeSources' = activeSources \cup {f}

(* C6: a scheduled buffer starts at the larger of the output clock and   *)
(* the next start time, which then advances by the buffer's duration; no *)
(* two buffers of the active set have overlapping playback intervals.    *)
C6_GaplessNoOverlap == [](C6_NoOverlap) /\ [][C6_Step]_vars

\* two buffers queued back to back, the first started by the clock
C6_Witness ==
    \E f \in activeSources, g \in activeSources :
        /\ f # g
        /\ frames[f].start > 0
        /\ frames[g].start = frames[f].start + frames[f].dur

(* C7: of two frames of a session delivered to onmessage with no         *)
(* interruption between them, the one delivered first does not start     *)
(* later than the other.                                                 *)
C7_ArrivalOrder ==
    \A a \in DOMAIN frames, b \in DOMAIN frames :
        (/\ frames[a].session = frames[b].session
         /\ frames[a].arrived < frames[b].arrived
         /\ frames[a].state # "decoding"
         /\ frames[b].state # "decoding"
         /\ ~\E k \in interrupts : frames[a].arrived < k /\ k < frames[b].arrived)
        => frames[a].start <= frames[b].start

C8_State ==
    /\ \A t \in DOMAIN toggles :
          toggles[t].outcome = "denied" =>
              /\ toggles[t].pc = "done"
              /\ ~toggles[t].threw
              /\ toggles[t].session = 0
              /\ \A c \in DOMAIN sessions : sessions[c].toggle # t
    /\ (\A t \in DOMAIN toggles : toggles[t].outcome # "granted") =>
          /\ ~isLive
          /\ sessions = <<>>
          /\ liveSessionRef = 0

C8_Step ==
    \A t \in DOMAIN toggles :
        (/\ t \in DOMAIN toggles'
         /\ toggles[t].pc = "mic"
         /\ toggles'[t].outcome = "denied") =>
            /\ isLive' = isLive
            /\ sessions' = sessions
            /\ liveSessionRef' = liveSessionRef

(* C8: a toggleLive call whose microphone request is denied catches the  *)
(* failure, opens no vendor connection and leaves isLive as it was:      *)
(* false, as long as no other call has been granted the microphone.      *)
C8_MicDenied == [](C8_State) /\ [][C8_Step]_vars

\* a denied call has returned: not live, no connection
C8_Witness ==
    /\ \E t \in DOMAIN toggles :
          toggles[t].outcome = "denied" /\ toggles[t].pc = "done"
    /\ ~isLive
    /\ sessions = <<>>

(* C13, as claimed: a newly scheduled buffer of a session starts no     *)
(* earlier than the computed end of every buffer of that session        *)
(* scheduled before it, buffers scheduled before an interruption         *)
(* included.                                                             *)
C13_MonotonicPerSession ==
    [][ \A g \in DOMAIN frames :
          (/\ g \in DOMAIN frames'
           /\ frames[g].state = "decoding"
           /\ frames'[g].state = "scheduled") =>
              \A f \in DOMAIN frames :
                  (/\ frames[f].state # "decoding"
                   /\ frames[f].session = frames[g].session) =>
                      frames'[g].start >= frames[f].start + frames[f].dur ]_vars

(* C13, amended: a newly scheduled buffer of a session starts no earlier *)
(* than the computed end of every buffer of that session scheduled       *)
(* before it since the latest interruption; an interruption sets the     *)
(* counter back to 0, so the next buffer starts at the output clock.     *)
C13_MonotonicBetweenInterrupts ==
    [][ \A g \in DOMAIN frames :
          (/\ g \in DOMAIN frames'
           /\ frames[g].state = "decoding"
           /\ frames'[g].state = "scheduled") =>
              /\ frames'[g].epoch = Cardinality(interrupts)
              /\ frames'[g].start >= currentTime
              /\ \A f \in DOMAIN frames :
                    (/\ frames[f].state # "decoding"
                     /\ frames[f].session = frames[g].session
                     /\ frames[f].epoch = Cardinality(interrupts)) =>
                        frames'[g].start >= frames[f].start + frames[f].dur ]_vars

\* after an interruption two buffers were scheduled one behind the other,
\* the first of them at the output clock
C13_Witness ==
    \E f \in DOMAIN frames, g \in DOMAIN frames :
        /\ frames[f].state # "decoding" /\ frames[g].state # "decoding"
        /\ frames[f].epoch = 1 /\ frames[g].epoch = 1
        /\ frames[f].start = currentTime /\ currentTime > 0
        /\ frames[g].start = frames[f].start + frames[f].dur

\* the steps a session may take, by its state before and after
SessionSteps ==
    {<<"connecting", "open">>, <<"open", "closed">>, <<"connecting", "closed">>}

C14_State ==
    /\ \A c \in DOMAIN sessions :
          sessions[c].state = "connecting" => ~sessions[c].opened
    /\ \A k \in DOMAIN sentFrames :
          /\ sentFrames[k].state # "connecting"
          /\ sessions[sentFrames[k].session].opened

C14_Step ==
    /\ \A c \in DOMAIN sessions' :
          IF c \in DOMAIN sessions
          THEN \/ sessions'[c].state = sessions[c].state
               \/ <<sessions[c].state, sessions'[c].state>> \in SessionSteps
          ELSE sessions'[c].state = "connecting"
    /\ (~isLive /\ isLive') =>
          \E c \in DOMAIN sessions :
              sessions[c].state = "connecting" /\ sessions'[c].state = "open"
    /\ (isLive /\ ~isLive') =>
          \/ sessions' = <<>>
          \/ \E c \in DOMAIN sessions :
                sessions[c].state # "closed" /\ sessions'[c].state = "closed"
    /\ \A c \in DOMAIN sessions \cap DOMAIN sessions' :
          /\ (sessions[c].state = "connecting" /\ sessions'[c].state = "open")
                => isLive'
          /\ (sessions[c].state # "closed" /\ sessions'[c].state = "closed")
                => ~isLive'

(* C14: a session starts connecting, is opened by onopen and closed by   *)
(* onclose, never the other way; isLive turns true only in the step of   *)
(* onopen, which sets it, and turns false only in the step of onclose,   *)
(* which clears it (or by the reload); no microphone frame is given to   *)
(* sendRealtimeInput for a session onopen has not run for.               *)
C14_SessionLifeCycle == [](C14_State) /\ [][C14_Step]_vars

\* a session was opened, sent a frame while open and was then closed
C14_Witness ==
    \E c \in DOMAIN sessions, k \in DOMAIN sentFrames :
        /\ sessions[c].state = "closed"
        /\ sessions[c].opened
        /\ sentFrames[k].session = c
        /\ sentFrames[k].state = "open"
        /\ ~isLive

(* C18: whenever the active-source set is not empty isSpeaking is true, *)
(* and once no frame is being decoded and the ended event of every       *)
(* scheduled buffer, played to its end or stopped by an interruption,    *)
(* has been delivered, isSpeaking is false.                              *)
C18_SpeakingFollowsSources ==
    /\ activeSources # {} => isSpeaking
    /\ (\A f \in DOMAIN frames : frames[f].state = "ended") => ~isSpeaking

\* one buffer was stopped by an interruption, another played to its end,
\* and both ended events have been delivered
C18_Witness ==
    /\ interrupts # {}
    /\ \A f \in DOMAIN frames : frames[f].state = "ended"
    /\ \E f \in DOMAIN frames : frames[f].stopped
    /\ \E f \in DOMAIN frames : ~frames[f].stopped
    /\ ~isSpeaking

\* the sessions that are connecting or open
LiveSessions ==
    {c \in DOMAIN sessions : sessions[c].state \in {"connecting", "open"}}

(* C16: at most one session is connecting or open at any time, and at    *)
(* most one toggleLive call holds or awaits a microphone stream for such *)
(* a session: a call made while an earlier one awaits the microphone or  *)
(* onopen acquires no second stream and opens no second connection.      *)
C16_AtMostOneSession ==
    /\ Cardinality(LiveSessions) <= 1
    /\ Cardinality({t \in DOMAIN toggles : toggles[t].outcome = "granted"})
          <= 1 + Cardinality(DOMAIN sessions \ LiveSessions)

(* C19: no microphone frame is given to sendRealtimeInput for a session *)
(* after onclose has run for that session.                               *)
C19_NoSendAfterClose ==
    \A k \in DOMAIN sentFrames : sentFrames[k].state # "closed"

====
